---- MODULE Spec2Model ----
(***************************************************************************)
(* Model of app.py: a Flask to-do application over SQLite.                 *)
(*                                                                         *)
(* State: the two tables (users, todos), the insert counter that drives    *)
(* created_at and the rowid sequence, one cookie session per browser       *)
(* context, the position of each context's request inside its handler, and *)
(* the last response sent.                                                 *)
(*                                                                         *)
(* Three specifications share the actions' storage statements:             *)
(*   Spec          one browser context, every request handled to           *)
(*                 completion before the next;                             *)
(*   SpecRegister  two contexts whose registrations are in flight together;*)
(*   SpecConc      two contexts whose task requests interleave at the      *)
(*                 granularity of single SQL statements.                   *)
(*                                                                         *)
(* Strings that the code trims are sequences of one-character strings, so  *)
(* that str.strip() is computed and not assumed.                           *)
(***************************************************************************)
EXTENDS Integers, Sequences, FiniteSets, TLC

VARIABLES users, todos, clock, session, pc, req, resp

vars == <<users, todos, clock, session, pc, req, resp>>

\* ------------------------------------------------------------------ bounds

\* Number of INSERTs into todos a run may perform.
MaxTasks == 2

\* Number of tasks in the tables whose listing is checked.
MaxListed == 3

\* ------------------------------------------------------------------ values

\* Browser contexts (one session cookie each).
Clients == {"c1", "c2"}

\* Python None, for a value that is otherwise a string.
None == <<"None">>

\* authenticate() returning None; `if user_id:` treats it like 0.
NoUser == 0

Whitespace == {" "}

\* str.strip(): drop leading and trailing whitespace.
RECURSIVE LStrip(_)
LStrip(s) ==
    IF s # <<>> /\ Head(s) \in Whitespace THEN LStrip(Tail(s)) ELSE s

RECURSIVE RStrip(_)
RStrip(s) ==
    IF s # <<>> /\ s[Len(s)] \in Whitespace
    THEN RStrip(SubSeq(s, 1, Len(s) - 1))
    ELSE s

\* Mutant of Strip: the value is taken as it was sent.
Unstripped(s) == s

Strip(s) == RStrip(LStrip(s))

\* Mutant of OrNone: the string is kept, empty or not.
OrNoneKept(s) == s

\* `x or None` on a string.
OrNone(s) == IF s = <<>> THEN None ELSE s

\* werkzeug generate_password_hash: a salted one-way digest of the password.
Salts == {"s1"}

PasswordHash(salt, password) == <<"pbkdf2", salt, password>>

\* Mutant of check_password_hash: every password passes.
check_password_hash_any(pwhash, password) == TRUE

\* werkzeug check_password_hash: recompute with the stored salt and compare.
check_password_hash(pwhash, password) ==
    pwhash = PasswordHash(pwhash[2], password)

\* ------------------------------------------------------------------ session

\* flask.session is a dict kept in the context's cookie; app.py reads and
\* writes the keys "user_id" and "username" of it.
EmptySession == [k \in {} |-> 0]

\* session[key] = value
SessionSet(s, key, value) ==
    [k \in DOMAIN s \cup {key} |-> IF k = key THEN value ELSE s[k]]

\* The test of login_required.
LoggedIn(s) == "user_id" \in DOMAIN s

\* ------------------------------------------------------------------ paths

NoPath == [endpoint |-> "", task_id |-> 0]

\* request.path of a route.
Path(endpoint, task_id) == [endpoint |-> endpoint, task_id |-> task_id]

\* url_for(endpoint, task_id=..., next=...)
UrlFor(endpoint, task_id, next) ==
    [endpoint |-> endpoint, task_id |-> task_id, next |-> next]

NoLocation == UrlFor("", 0, NoPath)

\* flash(message, category): a one-shot message handed to the transport,
\* shown on the next rendered page.
Flashed(category, message) == [category |-> category, message |-> message]

NoFlash == Flashed("", "")

\* A response: the context it answers, the handler that produced it and the
\* task id of its path, the status, the Location of a redirect, the message
\* flashed and the rows handed to the template.
Response(c, op, task_id, status, location, flash, body) ==
    [client |-> c, op |-> op, task_id |-> task_id, status |-> status,
     location |-> location, flash |-> flash, body |-> body]

NoResponse == Response("", "", 0, 0, NoLocation, NoFlash, <<>>)

\* redirect(location), after the flash when there is one.
Redirect(c, op, task_id, location, flash) ==
    Response(c, op, task_id, 302, location, flash, <<>>)

\* render_template(...)
Render(c, op, task_id, body) ==
    Response(c, op, task_id, 200, NoLocation, NoFlash, body)

\* abort(404)
NotFound(c, op, task_id) ==
    Response(c, op, task_id, 404, NoLocation, NoFlash, <<>>)

\* Mutant of LoginRedirect: the redirect to login without next.
LoginRedirectBare(c, op, task_id) ==
    Redirect(c, op, task_id, UrlFor("login", 0, NoPath), NoFlash)

\* login_required's answer to an anonymous request:
\* redirect(url_for("login", next=request.path))
LoginRedirect(c, op, task_id) ==
    Redirect(c, op, task_id, UrlFor("login", 0, Path(op, task_id)), NoFlash)

\* ------------------------------------------------------------------ users table

\* The UNIQUE constraint on users.username, tested by the INSERT itself.
UsernameTaken(us, username) ==
    \E i \in 1..Len(us) : us[i].username = username

\* INSERT INTO users (username, password_hash, created_at): ids count up,
\* no row is ever deleted.
InsertUser(us, username, pwhash) ==
    Append(us, [id |-> Len(us) + 1, username |-> username,
                password_hash |-> pwhash])

\* Mutant of create_user: the row is added whatever the table holds.
create_user_always(us, username, password, salt) ==
    [ok |-> TRUE, users |-> InsertUser(us, username, PasswordHash(salt, password))]

\* create_user(username, password): the new table and whether it succeeded.
create_user(us, username, password, salt) ==
    IF UsernameTaken(us, username)
    THEN [ok |-> FALSE, users |-> us]
    ELSE [ok |-> TRUE,
          users |-> InsertUser(us, username, PasswordHash(salt, password))]

\* Mutant of authenticate: the row's password_hash is not tested.
authenticate_by_name(us, username, password) ==
    IF UsernameTaken(us, username)
    THEN us[CHOOSE i \in 1..Len(us) : us[i].username = username].id
    ELSE NoUser

\* authenticate(username, password)
authenticate(us, username, password) ==
    LET hit(i) == /\ us[i].username = username
                  /\ check_password_hash(us[i].password_hash, password)
    IN  IF \E i \in 1..Len(us) : hit(i)
        THEN us[CHOOSE i \in 1..Len(us) : hit(i)].id
        ELSE NoUser

\* ------------------------------------------------------------------ todos table

Max(S) == CHOOSE x \in S : \A y \in S : y <= x

\* The id a new row of todos gets.  The schema is todos(id, user_id
\* REFERENCES users(id), title, description, due_date, done, created_at):
\* id is the table's integer primary key, declared without AUTOINCREMENT, and
\* SQLite then gives a new row one more than the largest id present.
NextRowId(ts) == Max({t.id : t \in ts} \cup {0}) + 1

\* Mutant of InsertTodo: the row is stored for the first user, whoever asks.
InsertTodoFirstUser(ts, inserted, user_id, title, description, due_date) ==
    ts \cup { [id |-> NextRowId(ts), user_id |-> 1,
               title |-> title, description |-> description,
               due_date |-> due_date, done |-> 0,
               created_at |-> inserted + 1] }

\* INSERT INTO todos (...) VALUES (?, ?, ?, ?, 0, ?)
InsertTodo(ts, inserted, user_id, title, description, due_date) ==
    ts \cup { [id |-> NextRowId(ts), user_id |-> user_id,
               title |-> title, description |-> description,
               due_date |-> due_date, done |-> 0,
               created_at |-> inserted + 1] }

\* Mutant of SelectOwned: the SELECT without its user_id test.
SelectById(ts, task_id, user_id) == {t \in ts : t.id = task_id}

\* SELECT * FROM todos WHERE id = ? AND user_id = ?
SelectOwned(ts, task_id, user_id) ==
    {t \in ts : t.id = task_id /\ t.user_id = user_id}

\* Mutant of UpdateTodo: an empty description does not replace the stored one.
UpdateTodoCoalesce(ts, task_id, title, description, due_date, done) ==
    { IF t.id = task_id
      THEN [t EXCEPT !.title = title,
                     !.description = IF description = <<>> THEN @ ELSE description,
                     !.due_date = due_date, !.done = done]
      ELSE t : t \in ts }

\* UPDATE todos SET title = ?, description = ?, due_date = ?, done = ? WHERE id = ?
UpdateTodo(ts, task_id, title, description, due_date, done) ==
    { IF t.id = task_id
      THEN [t EXCEPT !.title = title, !.description = description,
                     !.due_date = due_date, !.done = done]
      ELSE t : t \in ts }

\* Mutant of UpdateDone: the UPDATE also resets created_at.
UpdateDoneStamped(ts, task_id, done) ==
    { IF t.id = task_id THEN [t EXCEPT !.done = done, !.created_at = 0]
      ELSE t : t \in ts }

\* UPDATE todos SET done = ? WHERE id = ?
UpdateDone(ts, task_id, done) ==
    { IF t.id = task_id THEN [t EXCEPT !.done = done] ELSE t : t \in ts }

\* Mutant of DeleteOwned: the DELETE without its user_id test.
DeleteById(ts, task_id, user_id) == {t \in ts : t.id # task_id}

\* DELETE FROM todos WHERE id = ? AND user_id = ?
DeleteOwned(ts, task_id, user_id) ==
    {t \in ts : ~(t.id = task_id /\ t.user_id = user_id)}

\* Mutant of NewDone: the task is marked done whatever it was.
NewDoneSet(done) == 1

\* new_done = 0 if row["done"] else 1
NewDone(done) == IF done # 0 THEN 0 ELSE 1

\* SQLite's LIKE: % is any run of characters, _ any one character, and
\* ASCII letters match without regard to case.
Lower(ch) == CASE ch = "A" -> "a" [] ch = "B" -> "b" [] OTHER -> ch

RECURSIVE Like(_, _)
Like(s, pattern) ==
    IF pattern = <<>> THEN s = <<>>
    ELSE IF Head(pattern) = "%"
         THEN \/ Like(s, Tail(pattern))
              \/ s # <<>> /\ Like(Tail(s), pattern)
    ELSE /\ s # <<>>
         /\ Head(pattern) = "_" \/ Lower(Head(pattern)) = Lower(Head(s))
         /\ Like(Tail(s), Tail(pattern))

\* Mutant of Before: ORDER BY done, created_at (oldest first).
BeforeAscending(t, u) ==
    \/ t.done < u.done
    \/ t.done = u.done /\ t.created_at < u.created_at

\* ORDER BY done, created_at DESC
Before(t, u) ==
    \/ t.done < u.done
    \/ t.done = u.done /\ t.created_at > u.created_at

RECURSIVE OrderBy(_)
OrderBy(rows) ==
    IF rows = {} THEN <<>>
    ELSE LET first == CHOOSE t \in rows : \A u \in rows \ {t} : Before(t, u)
         IN  <<first>> \o OrderBy(rows \ {first})

\* The two SELECTs of dashboard().
SelectTodos(ts, user_id, search) ==
    LET like == <<"%">> \o search \o <<"%">>
    IN  OrderBy({ t \in ts :
                    /\ t.user_id = user_id
                    /\ \/ search = <<>>
                       \/ Like(t.title, like)
                       \/ Like(t.description, like) })

\* ------------------------------------------------------------------ inputs

\* The browser context of the sequential specification.
Browser == {"c1"}

\* Task ids a request may name: every id a row can have (each of them is
\* the id of no row before it is given and after the row is deleted).
TaskIds == 1..MaxTasks

RegisterForms ==
    { [username |-> <<"a">>,      password |-> <<"p">>, password2 |-> <<"p">>],
      [username |-> <<" ", "a">>, password |-> <<"p">>, password2 |-> <<"p">>],
      [username |-> <<"b">>,      password |-> <<"q">>, password2 |-> <<"q">>],
      [username |-> <<" ">>,      password |-> <<"p">>, password2 |-> <<"p">>],
      [username |-> <<"a">>,      password |-> <<>>,    password2 |-> <<>>],
      [username |-> <<"b">>,      password |-> <<"p">>, password2 |-> <<"q">>] }

\* The forms of the registrations that race: the same username arrives with
\* two passwords.
RivalForms ==
    { [username |-> <<"a">>,      password |-> <<"p">>, password2 |-> <<"p">>],
      [username |-> <<" ", "a">>, password |-> <<"q">>, password2 |-> <<"q">>],
      [username |-> <<"b">>,      password |-> <<"q">>, password2 |-> <<"q">>],
      [username |-> <<"b">>,      password |-> <<"p">>, password2 |-> <<"q">>] }

LoginForms ==
    { [username |-> <<"a">>,      password |-> <<"p">>, next |-> NoPath],
      [username |-> <<"a", " ">>, password |-> <<"q">>, next |-> NoPath],
      [username |-> <<"b">>,      password |-> <<"q">>,
       next |-> Path("edit_task", 1)],
      [username |-> <<"b">>,      password |-> <<"p">>, next |-> NoPath],
      [username |-> <<"c">>,      password |-> <<"p">>, next |-> NoPath] }

TaskForms ==
    { [title |-> <<" ", "a">>, description |-> <<>>,
       due_date |-> <<" ">>, done |-> ""],
      [title |-> <<"b">>, description |-> <<"x", " ">>,
       due_date |-> <<"d">>, done |-> "on"],
      [title |-> <<" ">>, description |-> <<"x">>,
       due_date |-> <<"d">>, done |-> "on"],
      [title |-> <<>>, description |-> <<>>,
       due_date |-> <<>>, done |-> ""] }

\* The form a GET carries: none of its fields is set.
NoForm == [title |-> <<>>, description |-> <<>>, due_date |-> <<>>, done |-> ""]

\* A request to add_task or edit_task: its method and its form.
TaskRequests == {<<"GET", NoForm>>} \cup {<<"POST", form>> : form \in TaskForms}

Searches == { <<>>, <<"b">> }


\* ------------------------------------------------------------------ state

\* A row of todos that was not fetched.
NoRow ==
    [id |-> 0, user_id |-> 0, title |-> <<>>, description |-> <<>>,
     due_date |-> None, done |-> 0, created_at |-> 0]

\* What a request in flight holds between two of its statements: its
\* method, path and form, and what it reads later of the row it has fetched.
Request(method, task_id, form, row, username, password) ==
    [method |-> method, task_id |-> task_id, form |-> form, row |-> row,
     username |-> username, password |-> password]

NoRequest == Request("", 0, NoForm, NoRow, <<>>, <<>>)

Init ==
    /\ users = <<>>
    /\ todos = {}
    /\ clock = 0
    /\ session = [c \in Clients |-> EmptySession]
    /\ pc = [c \in Clients |-> "idle"]
    /\ req = [c \in Clients |-> NoRequest]
    /\ resp = NoResponse

\* The context has no request in flight.
Idle(c) == pc[c] = "idle"

\* ------------------------------------------------------------------ auth routes

\* Mutant of RegisterValid: password2 is not compared.
RegisterValidUnconfirmed(username, password, password2) ==
    /\ username # <<>>
    /\ password # <<>>

\* register(), POST: the two validations; TRUE when the form passes them.
RegisterValid(username, password, password2) ==
    /\ username # <<>>
    /\ password # <<>>
    /\ password = password2

\* register(), POST, answering a form that fails validation.
RegisterInvalid(c, username, password, password2) ==
    /\ resp' = Redirect(c, "register", 0, UrlFor("register", 0, NoPath),
                        IF username = <<>> \/ password = <<>>
                        THEN Flashed("danger", "Username and password are required.")
                        ELSE Flashed("danger", "Passwords do not match."))
    /\ UNCHANGED users

\* register(), POST, from the call of create_user on.
RegisterCreate(c, username, password) ==
    \E salt \in Salts :
        LET made == create_user(users, username, password, salt)
        IN  /\ users' = made.users
            /\ resp' = IF made.ok
                       THEN Redirect(c, "register", 0, UrlFor("login", 0, NoPath),
                                Flashed("success", "Account created. Please login."))
                       ELSE Redirect(c, "register", 0, UrlFor("register", 0, NoPath),
                                Flashed("danger", "Username already taken."))

\* register(), POST
Register(c, form) ==
    LET username == Strip(form.username)
        password == form.password
        password2 == form.password2
    IN  /\ Idle(c)
        /\ IF RegisterValid(username, password, password2)
           THEN RegisterCreate(c, username, password)
           ELSE RegisterInvalid(c, username, password, password2)
        /\ UNCHANGED <<todos, clock, session, pc, req>>

\* Mutant of LoginSession: no session.clear(), and only user_id is set.
LoginSessionKept(s, user_id, username) == SessionSet(s, "user_id", user_id)

\* Mutant of LoginSession: session["username"] is not set.
LoginSessionUnnamed(s, user_id, username) ==
    SessionSet(EmptySession, "user_id", user_id)

\* The session login() leaves: session.clear(), then the two keys.
LoginSession(s, user_id, username) ==
    SessionSet(SessionSet(EmptySession, "user_id", user_id),
               "username", username)

\* Mutant of LoginTarget: next is not read.
LoginTargetHome(next_page) == UrlFor("dashboard", 0, NoPath)

\* redirect(next_page or url_for("dashboard"))
LoginTarget(next_page) ==
    IF next_page # NoPath
    THEN UrlFor(next_page.endpoint, next_page.task_id, NoPath)
    ELSE UrlFor("dashboard", 0, NoPath)

\* login(), POST
Login(c, form) ==
    LET username == Strip(form.username)
        password == form.password
        user_id == authenticate(users, username, password)
    IN  /\ Idle(c)
        /\ IF user_id # NoUser
           THEN /\ session' = [session EXCEPT
                                 ![c] = LoginSession(@, user_id, username)]
                /\ resp' = Redirect(c, "login", 0, LoginTarget(form.next),
                                    Flashed("success", "Logged in successfully."))
           ELSE /\ resp' = Redirect(c, "login", 0, UrlFor("login", 0, NoPath),
                                    Flashed("danger", "Invalid username or password."))
                /\ UNCHANGED session
        /\ UNCHANGED <<users, todos, clock, pc, req>>

\* Mutant of LogoutSession: session.pop("user_id") in place of clear().
LogoutSessionPop(s) == [k \in DOMAIN s \ {"user_id"} |-> s[k]]

\* Mutant of LogoutSession: nothing is cleared.
LogoutSessionKept(s) == s

\* The session logout() leaves: session.clear().
LogoutSession(s) == EmptySession

\* logout()
Logout(c) ==
    /\ Idle(c)
    /\ session' = [session EXCEPT ![c] = LogoutSession(@)]
    /\ resp' = Redirect(c, "logout", 0, UrlFor("login", 0, NoPath),
                        Flashed("info", "Logged out."))
    /\ UNCHANGED <<users, todos, clock, pc, req>>

\* register() and login(), GET: the form is rendered.
RenderForm(c, op) ==
    /\ Idle(c)
    /\ resp' = Render(c, op, 0, <<>>)
    /\ UNCHANGED <<users, todos, clock, session, pc, req>>

\* ------------------------------------------------------------------ task routes

\* login_required: an anonymous request is sent to login and the handler
\* does not run.
Rejected(c, op, task_id) ==
    /\ Idle(c)
    /\ ~LoggedIn(session[c])
    /\ resp' = LoginRedirect(c, op, task_id)
    /\ UNCHANGED <<users, todos, clock, session, pc, req>>

\* dashboard()
Dashboard(c, q) ==
    LET search == Strip(q)
    IN  /\ Idle(c)
        /\ LoggedIn(session[c])
        /\ resp' = Render(c, "dashboard", 0,
                          SelectTodos(todos, session[c]["user_id"], search))
        /\ UNCHANGED <<users, todos, clock, session, pc, req>>

\* add_task()
AddTask(c, method, form) ==
    LET title == Strip(form.title)
        description == Strip(form.description)
        due_date == OrNone(Strip(form.due_date))
    IN  /\ Idle(c)
        /\ LoggedIn(session[c])
        /\ IF method = "GET"
           THEN /\ resp' = Render(c, "add_task", 0, <<>>)
                /\ UNCHANGED <<todos, clock>>
           ELSE IF title = <<>>
           THEN /\ resp' = Redirect(c, "add_task", 0, UrlFor("add_task", 0, NoPath),
                                    Flashed("danger", "Title is required."))
                /\ UNCHANGED <<todos, clock>>
           ELSE /\ clock < MaxTasks
                /\ todos' = InsertTodo(todos, clock, session[c]["user_id"],
                                       title, description, due_date)
                /\ clock' = clock + 1
                /\ resp' = Redirect(c, "add_task", 0, UrlFor("dashboard", 0, NoPath),
                                    Flashed("success", "Task added."))
        /\ UNCHANGED <<users, session, pc, req>>

\* edit_task(task_id), from the fetched row on.
EditFetched(c, method, task_id, form, task) ==
    LET title == Strip(form.title)
        description == Strip(form.description)
        due_date == OrNone(Strip(form.due_date))
        done == IF form.done = "on" THEN 1 ELSE 0
    IN  IF method = "GET"
        THEN /\ resp' = Render(c, "edit_task", task_id, <<task>>)
             /\ UNCHANGED todos
        ELSE IF title = <<>>
        THEN /\ resp' = Redirect(c, "edit_task", task_id,
                                 UrlFor("edit_task", task_id, NoPath),
                                 Flashed("danger", "Title is required."))
             /\ UNCHANGED todos
        ELSE /\ todos' = UpdateTodo(todos, task_id, title, description,
                                    due_date, done)
             /\ resp' = Redirect(c, "edit_task", task_id,
                                 UrlFor("dashboard", 0, NoPath),
                                 Flashed("success", "Task updated."))

\* edit_task(task_id)
EditTask(c, method, task_id, form) ==
    LET found == SelectOwned(todos, task_id, session[c]["user_id"])
    IN  /\ Idle(c)
        /\ LoggedIn(session[c])
        /\ IF found = {}
           THEN /\ resp' = NotFound(c, "edit_task", task_id)
                /\ UNCHANGED todos
           ELSE EditFetched(c, method, task_id, form, CHOOSE t \in found : TRUE)
        /\ UNCHANGED <<users, clock, session, pc, req>>

\* delete_task(task_id)
DeleteTask(c, task_id) ==
    /\ Idle(c)
    /\ LoggedIn(session[c])
    /\ todos' = DeleteOwned(todos, task_id, session[c]["user_id"])
    /\ resp' = Redirect(c, "delete_task", task_id, UrlFor("dashboard", 0, NoPath),
                        Flashed("info", "Task deleted."))
    /\ UNCHANGED <<users, clock, session, pc, req>>

\* toggle_task(task_id), from the fetched row on.
ToggleFetched(c, task_id, done) ==
    /\ todos' = UpdateDone(todos, task_id, NewDone(done))
    /\ resp' = Redirect(c, "toggle_task", task_id, UrlFor("dashboard", 0, NoPath),
                        NoFlash)

\* toggle_task(task_id)
ToggleTask(c, task_id) ==
    LET found == SelectOwned(todos, task_id, session[c]["user_id"])
    IN  /\ Idle(c)
        /\ LoggedIn(session[c])
        /\ IF found = {}
           THEN /\ resp' = NotFound(c, "toggle_task", task_id)
                /\ UNCHANGED todos
           ELSE ToggleFetched(c, task_id, (CHOOSE t \in found : TRUE).done)
        /\ UNCHANGED <<users, clock, session, pc, req>>

\* ------------------------------------------------------------------ statements

\* A request in flight of context c moves to its next statement.
Goto(c, label, request) ==
    /\ pc' = [pc EXCEPT ![c] = label]
    /\ req' = [req EXCEPT ![c] = request]

\* register(), POST, up to the call of create_user.
RegisterBegin(c, form) ==
    LET username == Strip(form.username)
        password == form.password
        password2 == form.password2
    IN  /\ Idle(c)
        /\ IF RegisterValid(username, password, password2)
           THEN /\ Goto(c, "create_user",
                        Request("POST", 0, NoForm, NoRow, username, password))
                /\ UNCHANGED <<users, resp>>
           ELSE /\ RegisterInvalid(c, username, password, password2)
                /\ UNCHANGED <<pc, req>>
        /\ UNCHANGED <<todos, clock, session>>

\* register(), POST: the INSERT of create_user and the answer.
RegisterInsert(c) ==
    /\ pc[c] = "create_user"
    /\ RegisterCreate(c, req[c].username, req[c].password)
    /\ Goto(c, "idle", NoRequest)
    /\ UNCHANGED <<todos, clock, session>>

\* What edit_task keeps of the row it fetched: the GET branch renders it,
\* the POST branch tests only that there is one.
Fetched(method, row) == IF method = "GET" THEN row ELSE [NoRow EXCEPT !.id = row.id]

\* edit_task(task_id): the SELECT, and the 404 when it finds no row.
EditSelect(c, method, task_id, form) ==
    LET found == SelectOwned(todos, task_id, session[c]["user_id"])
    IN  /\ Idle(c)
        /\ LoggedIn(session[c])
        /\ IF found = {}
           THEN /\ resp' = NotFound(c, "edit_task", task_id)
                /\ UNCHANGED <<pc, req>>
           ELSE /\ Goto(c, "edit_task",
                        Request(method, task_id, form,
                                Fetched(method, CHOOSE t \in found : TRUE),
                                <<>>, <<>>))
                /\ UNCHANGED resp
        /\ UNCHANGED <<users, todos, clock, session>>

\* edit_task(task_id): the rest of the handler, the UPDATE included.
EditUpdate(c) ==
    /\ pc[c] = "edit_task"
    /\ EditFetched(c, req[c].method, req[c].task_id, req[c].form, req[c].row)
    /\ Goto(c, "idle", NoRequest)
    /\ UNCHANGED <<users, clock, session>>

\* toggle_task(task_id): the SELECT, and the 404 when it finds no row.
ToggleSelect(c, task_id) ==
    LET found == SelectOwned(todos, task_id, session[c]["user_id"])
    IN  /\ Idle(c)
        /\ LoggedIn(session[c])
        /\ IF found = {}
           THEN /\ resp' = NotFound(c, "toggle_task", task_id)
                /\ UNCHANGED <<pc, req>>
           ELSE /\ Goto(c, "toggle_task",
                        Request("POST", task_id, NoForm,
                                [NoRow EXCEPT !.done = (CHOOSE t \in found : TRUE).done],
                                <<>>, <<>>))
                /\ UNCHANGED resp
        /\ UNCHANGED <<users, todos, clock, session>>

\* toggle_task(task_id): the UPDATE and the redirect.
ToggleUpdate(c) ==
    /\ pc[c] = "toggle_task"
    /\ ToggleFetched(c, req[c].task_id, req[c].row.done)
    /\ Goto(c, "idle", NoRequest)
    /\ UNCHANGED <<users, clock, session>>

\* ------------------------------------------------------------------ sequential

\* The routes behind login_required.
Guarded == {"dashboard", "add_task", "edit_task", "delete_task", "toggle_task"}

\* The task id in the path of a route (0: the route has none).
PathIds(op) == IF op \in {"dashboard", "add_task"} THEN {0} ELSE TaskIds

Next ==
    \/ \E c \in Browser, form \in RegisterForms : Register(c, form)
    \/ \E c \in Browser, form \in LoginForms : Login(c, form)
    \/ \E c \in Browser : Logout(c)
    \/ \E c \in Browser, op \in {"login", "register"} : RenderForm(c, op)
    \/ \E c \in Browser, op \in Guarded :
           \E id \in PathIds(op) : Rejected(c, op, id)
    \/ \E c \in Browser, q \in Searches : Dashboard(c, q)
    \/ \E c \in Browser, r \in TaskRequests : AddTask(c, r[1], r[2])
    \/ \E c \in Browser, id \in TaskIds, r \in TaskRequests :
           EditTask(c, r[1], id, r[2])
    \/ \E c \in Browser, id \in TaskIds : DeleteTask(c, id)
    \/ \E c \in Browser, id \in TaskIds : ToggleTask(c, id)

Spec == Init /\ [][Next]_vars

\* ------------------------------------------------------------------ registrations in flight

NextRegister ==
    \/ \E c \in Clients, form \in RivalForms : RegisterBegin(c, form)
    \/ \E c \in Clients : RegisterInsert(c)
    \/ \E c \in Clients, form \in LoginForms : Login(c, form)
    \/ \E c \in Clients : Logout(c)

SpecRegister == Init /\ [][NextRegister]_vars

\* ------------------------------------------------------------------ task requests in flight

\* Both users are registered, nobody is logged in.
InitConc ==
    /\ users = InsertUser(InsertUser(<<>>, <<"a">>, PasswordHash("s1", <<"p">>)),
                          <<"b">>, PasswordHash("s1", <<"q">>))
    /\ todos = {}
    /\ clock = 0
    /\ session = [c \in Clients |-> EmptySession]
    /\ pc = [c \in Clients |-> "idle"]
    /\ req = [c \in Clients |-> NoRequest]
    /\ resp = NoResponse

\* The forms that pass the validation of add_task and edit_task.
ValidTaskForms == {form \in TaskForms : Strip(form.title) # <<>>}

\* The logins of the two registered users.
ConcLogins ==
    { [username |-> <<"a">>, password |-> <<"p">>, next |-> NoPath],
      [username |-> <<"b">>, password |-> <<"q">>, next |-> NoPath] }

NextConc ==
    \/ \E c \in Clients, form \in ConcLogins : Login(c, form)
    \/ \E c \in Clients : Logout(c)
    \/ \E c \in Clients, form \in ValidTaskForms : AddTask(c, "POST", form)
    \/ \E c \in Clients, id \in TaskIds : DeleteTask(c, id)
    \/ \E c \in Clients, id \in TaskIds, form \in ValidTaskForms :
           EditSelect(c, "POST", id, form)
    \/ \E c \in Clients : EditUpdate(c)
    \/ \E c \in Clients, id \in TaskIds : ToggleSelect(c, id)
    \/ \E c \in Clients : ToggleUpdate(c)

SpecConc == InitConc /\ [][NextConc]_vars

\* ------------------------------------------------------------------ listing

\* The texts of the listed tasks: one has "B" in its description only, the
\* other "b" as its title.
ListTexts ==
    { [title |-> <<"a">>, description |-> <<"x", "B">>],
      [title |-> <<"b">>, description |-> <<>>] }

\* What a listed task is besides its id and creation time.
ListKinds == {1, 2} \X {0, 1} \X ListTexts

\* The tables of MaxListed tasks, created one after the other by the two
\* users, each done or not.
ListTables ==
    { { [id |-> i, user_id |-> f[i][1], title |-> f[i][3].title,
         description |-> f[i][3].description, due_date |-> None,
         done |-> f[i][2], created_at |-> i] : i \in 1..MaxListed }
      : f \in [1..MaxListed -> ListKinds] }

\* Both users are registered and the tasks are there.
InitList ==
    /\ users = InsertUser(InsertUser(<<>>, <<"a">>, PasswordHash("s1", <<"p">>)),
                          <<"b">>, PasswordHash("s1", <<"q">>))
    /\ todos \in ListTables
    /\ clock = MaxListed
    /\ session = [c \in Clients |-> EmptySession]
    /\ pc = [c \in Clients |-> "idle"]
    /\ req = [c \in Clients |-> NoRequest]
    /\ resp = NoResponse

\* The q of a request to the dashboard.
ListSearches == { <<>>, <<" ", "b">>, <<"x">> }

NextList ==
    \/ \E c \in Browser, form \in ConcLogins : Login(c, form)
    \/ \E c \in Browser : Logout(c)
    \/ \E c \in Browser, q \in ListSearches : Dashboard(c, q)
    \/ \E c \in Browser, id \in 1..MaxListed : ToggleTask(c, id)

SpecList == InitList /\ [][NextList]_vars

\* ------------------------------------------------------------------ edits in flight

\* Both users are registered, both contexts are logged in as "a", and "a"
\* has one task.
InitEdits ==
    /\ users = InsertUser(InsertUser(<<>>, <<"a">>, PasswordHash("s1", <<"p">>)),
                          <<"b">>, PasswordHash("s1", <<"q">>))
    /\ todos = InsertTodo({}, 0, 1, <<"c">>, <<"y">>, None)
    /\ clock = 1
    /\ session = [c \in Clients |-> LoginSession(EmptySession, 1, <<"a">>)]
    /\ pc = [c \in Clients |-> "idle"]
    /\ req = [c \in Clients |-> NoRequest]
    /\ resp = NoResponse

NextEdits ==
    \/ \E c \in Clients, id \in TaskIds, form \in TaskForms :
           EditSelect(c, "POST", id, form)
    \/ \E c \in Clients : EditUpdate(c)
    \/ \E c \in Clients, id \in TaskIds : ToggleSelect(c, id)
    \/ \E c \in Clients : ToggleUpdate(c)
    \/ \E c \in Clients, id \in TaskIds : DeleteTask(c, id)

SpecEdits == InitEdits /\ [][NextEdits]_vars

\* ------------------------------------------------------------------ claims

\* C1: requests handled one after the other.  For a session logged in as B:
\* the rows dashboard() hands to the template are all owned by B; an edit or
\* a toggle against the id of a task that another user owns answers 404 and
\* a delete against it changes nothing; in all three cases the table of
\* tasks, the other user's task with it, is what it was.
C1_Isolation ==
    [][\A c \in Browser :
         (LoggedIn(session[c]) /\ resp'.client = c) =>
           LET B == session[c]["user_id"]
               foreign(id) == \E t \in todos : t.id = id /\ t.user_id # B
           IN  /\ resp'.op = "dashboard" =>
                     \A i \in DOMAIN resp'.body : resp'.body[i].user_id = B
               /\ (resp'.op \in {"edit_task", "toggle_task"}
                      /\ foreign(resp'.task_id)) =>
                     resp'.status = 404 /\ todos' = todos
               /\ (resp'.op = "delete_task" /\ foreign(resp'.task_id)) =>
                     resp'.status = 302 /\ todos' = todos]_vars

\* B's edit of a task that A owns has been answered 404, and the task is there.
C1_Witness ==
    \E c \in Browser :
        /\ LoggedIn(session[c])
        /\ resp.client = c /\ resp.op = "edit_task" /\ resp.status = 404
        /\ \E t \in todos :
              t.id = resp.task_id /\ t.user_id # session[c]["user_id"]

\* C2: a request to a route behind login_required from a session without
\* user_id is answered by a redirect to login whose next is the requested
\* path, hands no row to a template, and leaves the tasks, the users and the
\* session as they were.
C2_AnonymousRejected ==
    [][\A c \in Browser :
         (~LoggedIn(session[c]) /\ resp'.client = c /\ resp'.op \in Guarded) =>
           /\ resp'.status = 302
           /\ resp'.location =
                 [endpoint |-> "login", task_id |-> 0,
                  next |-> [endpoint |-> resp'.op, task_id |-> resp'.task_id]]
           /\ resp'.body = <<>>
           /\ todos' = todos
           /\ users' = users
           /\ session' = session]_vars

\* An anonymous delete of a task that exists was sent to login; the task is
\* still there.
C2_Witness ==
    \E c \in Browser :
        /\ ~LoggedIn(session[c])
        /\ resp.client = c /\ resp.op = "delete_task" /\ resp.status = 302
        /\ resp.location.endpoint = "login"
        /\ \E t \in todos : t.id = resp.task_id

\* C3: no two user records share a username, also while registrations are in
\* flight together: a create_user that finds its username taken leaves the
\* user records as they are, the existing password hash with them, and
\* register() reports the name as taken.
C3_UniqueUsernames ==
    /\ [](\A i, j \in 1..Len(users) :
             users[i].username = users[j].username => i = j)
    /\ [][\A c \in Clients :
            (/\ pc[c] = "create_user"
             /\ pc'[c] = "idle"
             /\ \E i \in 1..Len(users) : users[i].username = req[c].username) =>
              /\ users' = users
              /\ resp'.client = c
              /\ resp'.flash.message = "Username already taken."
              /\ resp'.location.endpoint = "register"]_vars

\* One record exists; a registration has just been refused while another
\* context's registration of the same username, with another password, is
\* between its validation and its INSERT.
C3_Witness ==
    /\ Len(users) = 1
    /\ resp.op = "register"
    /\ resp.flash.message = "Username already taken."
    /\ \E c \in Clients \ {resp.client} :
          /\ pc[c] = "create_user"
          /\ req[c].username = users[1].username
          /\ ~check_password_hash(users[1].password_hash, req[c].password)

\* The usernames and passwords authenticate is asked about.
Usernames == { <<"a">>, <<"b">>, <<"c">> }

Passwords == { <<"p">>, <<"q">> }

\* The password a user record was created with (the digest is modelled as
\* the triple of scheme, salt and password).
CreatedWith(user) == user.password_hash[3]

C6_Logout ==
    /\ [](\A c \in Browser : ENABLED Logout(c))
    /\ [][\A c \in Browser :
         /\ (resp'.client = c /\ resp'.op = "logout") =>
               /\ "user_id" \notin DOMAIN session'[c]
               /\ "username" \notin DOMAIN session'[c]
         /\ (~LoggedIn(session[c]) /\ LoggedIn(session'[c])) =>
               /\ resp'.client = c
               /\ resp'.op = "login"
               /\ resp'.flash.category = "success"
         /\ (~LoggedIn(session[c]) /\ resp'.client = c /\ resp'.op \in Guarded) =>
               /\ resp'.status = 302
               /\ resp'.location.endpoint = "login"
               /\ todos' = todos]_vars

\* Tasks exist, so the browser was logged in; it is anonymous now, and its
\* request to toggle a task that exists has been sent to login.
C6_Witness ==
    \E c \in Browser :
        /\ ~LoggedIn(session[c])
        /\ "username" \notin DOMAIN session[c]
        /\ resp.client = c /\ resp.op = "toggle_task" /\ resp.status = 302
        /\ \E t \in todos : t.id = resp.task_id

Blank(s) == \A i \in 1..Len(s) : s[i] \in Whitespace

\* C8: a POST to add_task whose title is empty or whitespace only is
\* answered with the validation message and inserts no row.
C8_BlankTitle ==
    [][\A c \in Browser, form \in TaskForms :
         (resp'.op = "add_task" /\ Blank(form.title)
            /\ AddTask(c, "POST", form)) =>
           /\ todos' = todos
           /\ clock' = clock
           /\ resp'.status = 302
           /\ resp'.location.endpoint = "add_task"
           /\ resp'.flash = Flashed("danger", "Title is required.")]_vars

\* A create has been refused for its title while the user has a task.
C8_Witness ==
    \E c \in Browser :
        /\ LoggedIn(session[c])
        /\ resp.client = c /\ resp.op = "add_task"
        /\ resp.flash.message = "Title is required."
        /\ \E t \in todos : t.user_id = session[c]["user_id"]

\* C9: a logged-in user can request the delete of any id; the answer is the
\* redirect to the dashboard; the table afterwards is the table before
\* without the task of that id if the user owns it, every other task as it
\* was; and a delete that follows a delete of the same id by the same
\* session changes nothing.
C9_DeleteIdempotent ==
    /\ [](\A c \in Browser :
             LoggedIn(session[c]) => \A id \in TaskIds : ENABLED DeleteTask(c, id))
    /\ [][\A c \in Browser :
         LoggedIn(session[c]) =>
           /\ (resp'.client = c /\ resp'.op = "delete_task") =>
                 LET id == resp'.task_id
                     mine(t) == t.id = id /\ t.user_id = session[c]["user_id"]
                 IN  /\ resp'.status = 302
                     /\ resp'.location.endpoint = "dashboard"
                     /\ todos' = {t \in todos : ~mine(t)}
                     /\ (resp.client = c /\ resp.op = "delete_task"
                           /\ resp.task_id = id) => todos' = todos]_vars

\* A delete has been answered, no task has its id, and a task of the same
\* user and a later id is still there.
C9_Witness ==
    \E c \in Browser :
        /\ LoggedIn(session[c])
        /\ resp.client = c /\ resp.op = "delete_task" /\ resp.status = 302
        /\ \A t \in todos : t.id # resp.task_id
        /\ \E t \in todos :
              t.user_id = session[c]["user_id"] /\ t.id > resp.task_id

\* What two toggles of task t in succession compute: each reads done and
\* writes the other value.
ToggledTwice(ts, t) ==
    UpdateDone(UpdateDone(ts, t.id, NewDone(t.done)),
               t.id, NewDone(NewDone(t.done)))

\* C10: a toggle of a task the session's user owns writes the other value of
\* done into that task and changes nothing else in the store, and two
\* toggles in succession give back the table they started from.
C10_ToggleInvolution ==
    /\ [][\A c \in Browser :
            (LoggedIn(session[c]) /\ resp'.client = c
               /\ resp'.op = "toggle_task" /\ resp'.status = 302) =>
              LET id == resp'.task_id
              IN  /\ \E t \in todos :
                        t.id = id /\ t.user_id = session[c]["user_id"]
                  /\ todos' = { IF t.id = id
                                THEN [t EXCEPT !.done = 1 - t.done]
                                ELSE t : t \in todos }
                  /\ users' = users
                  /\ (resp.client = c /\ resp.op = "toggle_task"
                        /\ resp.status = 302 /\ resp.task_id = id) =>
                       \A t \in todos' : t.id = id =>
                          \E u \in todos : u.id = id /\ u.done # t.done]_vars
    /\ [](\A t \in todos : ToggledTwice(todos, t) = todos)

\* A toggle has been answered for a task that was created not done with
\* title "a" and is not done again, beside another task.
C10_Witness ==
    \E c \in Browser :
        /\ resp.client = c /\ resp.op = "toggle_task" /\ resp.status = 302
        /\ \E t \in todos :
              /\ t.id = resp.task_id
              /\ t.title = <<"a">>
              /\ t.done = 0
        /\ Cardinality(todos) = 2

\* The string holds q as a substring, ASCII case ignored.
Contains(s, q) ==
    \E i \in 1..(Len(s) - Len(q) + 1) :
        \A k \in 1..Len(q) : Lower(s[i + k - 1]) = Lower(q[k])

\* The task is one a listing for query q (already trimmed) is to show.
Matches(t, q) ==
    q = <<>> \/ Contains(t.title, q) \/ Contains(t.description, q)

InvalidCredentials(c) ==
    Redirect(c, "login", 0, UrlFor("login", 0, NoPath),
             Flashed("danger", "Invalid username or password."))

\* C12: a login with a username that no user has and a login with the
\* username of a user and another password than the user's get the same
\* answer, the redirect to login with one message, and both leave the
\* session, the users and the tasks as they were.
C12_FailedLoginAlike ==
    [][\A c \in Browser, form \in LoginForms :
         LET named == {i \in 1..Len(users) :
                          users[i].username = Strip(form.username)}
             unknown == named = {}
             wrong == \E i \in named : CreatedWith(users[i]) # form.password
         IN  (resp'.op = "login" /\ (unknown \/ wrong) /\ Login(c, form)) =>
               /\ resp' = InvalidCredentials(c)
               /\ session' = session
               /\ users' = users
               /\ todos' = todos]_vars

\* A login has been refused while the browser is logged in, both users are
\* registered and a task is stored.
C12_Witness ==
    \E c \in Browser :
        /\ resp = InvalidCredentials(c)
        /\ LoggedIn(session[c])
        /\ Len(users) = 2
        /\ todos # {}

\* The step answers a login of context c that was accepted.
LoginAccepted(c) ==
    resp'.client = c /\ resp'.op = "login" /\ resp'.flash.category = "success"

\* The step answers a logout of context c.
LoggedOut(c) == resp'.client = c /\ resp'.op = "logout"

\* C13, as stated: a session that holds user_id u holds u after every step
\* that is not a logout, further logins included; it gets a user_id only by
\* an accepted login and loses it only by a logout.
C13_OneUserUntilLogout ==
    [][\A c \in Browser :
         /\ (LoggedIn(session[c]) /\ ~LoggedOut(c)) =>
               /\ LoggedIn(session'[c])
               /\ session'[c]["user_id"] = session[c]["user_id"]
         /\ (~LoggedIn(session[c]) /\ LoggedIn(session'[c])) => LoginAccepted(c)
         /\ (LoggedIn(session[c]) /\ ~LoggedIn(session'[c])) => LoggedOut(c)]_vars

\* C13, amended: a session that holds user_id u holds u after every step
\* that is neither a logout nor an accepted login; an accepted login puts
\* there the id of the user whose username was given, whoever was logged in
\* before, and a logout leaves the session without user_id; no other step
\* changes the session.
C13_OneUserUntilLogoutOrLogin ==
    [][\A c \in Browser :
         /\ (~LoggedOut(c) /\ ~LoginAccepted(c)) => session'[c] = session[c]
         /\ LoggedOut(c) => ~LoggedIn(session'[c])
         /\ LoginAccepted(c) =>
               /\ LoggedIn(session'[c])
               /\ \E i \in 1..Len(users) :
                     /\ users[i].id = session'[c]["user_id"]
                     /\ users[i].username = session'[c]["username"]
                     /\ \E form \in LoginForms :
                           /\ Login(c, form)
                           /\ Strip(form.username) = users[i].username]_vars

\* The browser has just been logged in as the second user, and each of the
\* two users has a task: both have been logged in from this browser.
C13_Witness ==
    \E c \in Browser :
        /\ resp.client = c /\ resp.op = "login" /\ resp.flash.category = "success"
        /\ session[c]["user_id"] = 2
        /\ \E t, u \in todos : t.user_id = 1 /\ u.user_id = 2

\* C14: a registration whose username is empty (after trimming), whose
\* password is empty or whose two passwords differ creates no user, and an
\* edit of a task the user owns with an empty or whitespace-only title
\* leaves the task as it was; both leave the users, the tasks and the session
\* unchanged.
C14_InvalidChangesNothing ==
    [][\A c \in Browser :
         /\ \A form \in RegisterForms :
               (/\ resp'.op = "register"
                /\ \/ Blank(form.username)
                   \/ form.password = <<>>
                   \/ form.password # form.password2
                /\ Register(c, form)) =>
                 /\ users' = users
                 /\ todos' = todos
                 /\ session' = session
                 /\ resp'.flash.category = "danger"
         /\ \A id \in TaskIds, form \in TaskForms :
               (/\ resp'.op = "edit_task"
                /\ resp'.task_id = id
                /\ LoggedIn(session[c])
                /\ \E t \in todos : t.id = id /\ t.user_id = session[c]["user_id"]
                /\ Blank(form.title)
                /\ EditTask(c, "POST", id, form)) =>
                 /\ users' = users
                 /\ todos' = todos
                 /\ session' = session
                 /\ resp'.flash = Flashed("danger", "Title is required.")]_vars

\* An edit has been refused for its title; the task it named is the user's
\* and is as it was created, with the title "a" and not done.
C14_Witness ==
    \E c \in Browser :
        /\ LoggedIn(session[c])
        /\ resp.client = c /\ resp.op = "edit_task"
        /\ resp.flash.message = "Title is required."
        /\ \E t \in todos :
              /\ t.id = resp.task_id
              /\ t.user_id = session[c]["user_id"]
              /\ t.title = <<"a">> /\ t.done = 0

\* C15: with the edits of one user interleaved statement by statement, the
\* UPDATE of an edit that passed the ownership test and the validation, on a
\* task that is still there, leaves the task with the four values that edit
\* submitted (trimmed, an empty due_date as None, done from the checkbox) and
\* every other column and row as it was: after the last UPDATE the task holds
\* the last writer's values and none of the other's.
C15_LastWriterWins ==
    [][\A c \in Clients :
         (pc[c] = "edit_task" /\ pc'[c] = "idle"
            /\ ~Blank(req[c].form.title)) =>
           LET id == req[c].task_id
               form == req[c].form
               submitted(t) ==
                   [t EXCEPT !.title = Strip(form.title),
                             !.description = Strip(form.description),
                             !.due_date = IF Blank(form.due_date) THEN None
                                          ELSE Strip(form.due_date),
                             !.done = IF form.done = "on" THEN 1 ELSE 0]
           IN  /\ todos' = { IF t.id = id THEN submitted(t) ELSE t : t \in todos }
               /\ resp'.client = c
               /\ resp'.flash.message = "Task updated."]_vars

\* The second context's edit has written the title "a" with an empty
\* description and no due date over what was there, while the first
\* context's edit, with the title "b", has passed its SELECT and waits to
\* write.
C15_Witness ==
    /\ pc["c1"] = "edit_task"
    /\ Strip(req["c1"].form.title) = <<"b">>
    /\ resp.client = "c2" /\ resp.flash.message = "Task updated."
    /\ \E t \in todos :
          /\ t.id = req["c1"].task_id
          /\ t.title = <<"a">> /\ t.description = <<>>
          /\ t.due_date = None /\ t.done = 0

\* C16: no step changes the id, the user_id or the created_at of a task that
\* is there before and after it, and no id is held by two rows; no step
\* changes or removes a row of users, so a user's id, username and
\* password_hash stay what registration set.
C16_Frame ==
    [][/\ \A t \in todos : \A u \in todos' :
             u.id = t.id =>
               /\ u.user_id = t.user_id
               /\ u.created_at = t.created_at
       /\ \A t, u \in todos' : t.id = u.id => t = u
       /\ Len(users') >= Len(users)
       /\ \A i \in 1..Len(users) : users'[i] = users[i]]_vars

\* With two users registered, a task has been toggled after it was edited
\* to the title "b" and done: it is not done now, and it is still the task
\* of the user who is logged in.
C16_Witness ==
    \E c \in Browser :
        /\ Len(users) = 2
        /\ LoggedIn(session[c])
        /\ resp.client = c /\ resp.op = "toggle_task" /\ resp.status = 302
        /\ \E t \in todos :
              /\ t.id = resp.task_id
              /\ t.user_id = session[c]["user_id"]
              /\ t.title = <<"b">> /\ t.done = 0

\* C17: every stored task has a title that is not empty, trimmed or not, and
\* a due_date that is None or a non-empty string; a create or an edit that is
\* accepted with an empty or whitespace-only due_date stores None.
C17_StoredFields ==
    /\ [](\A t \in todos :
             /\ ~Blank(t.title)
             /\ t.due_date = None \/ ~Blank(t.due_date))
    /\ [][\A c \in Browser, form \in TaskForms :
            (~Blank(form.title) /\ Blank(form.due_date)) =>
              /\ (resp'.op = "add_task" /\ AddTask(c, "POST", form)) =>
                    \E t \in todos' \ todos : t.due_date = None
              /\ \A id \in TaskIds :
                    (/\ resp'.op = "edit_task" /\ resp'.task_id = id
                     /\ resp'.status = 302
                     /\ EditTask(c, "POST", id, form)) =>
                       \E t \in todos' : t.id = id /\ t.due_date = None]_vars

\* An edit sent with a whitespace-only due date has been accepted: the task
\* it named, the second created, has no due date, beside the first task,
\* whose due date is "d".
C17_Witness ==
    \E c \in Browser :
        /\ resp.client = c /\ resp.op = "edit_task"
        /\ resp.flash.message = "Task updated."
        /\ \E t \in todos :
              /\ t.id = resp.task_id
              /\ t.due_date = None
              /\ t.created_at = 2
        /\ \E u \in todos : u.created_at = 1 /\ u.due_date = <<"d">>

\* The tasks the dashboard shows user_id when no query is given.
Listed(ts, user_id) ==
    LET rows == SelectTodos(ts, user_id, <<>>)
    IN  {rows[i] : i \in DOMAIN rows}

\* C18: a POST to add_task with a title that is not blank, from a logged-in
\* session, adds one row and leaves every row that was there as it was; the
\* new row has a new id, the session's user as owner, the trimmed title and
\* done = 0; it is in the list the dashboard then shows that user and in the
\* list of no other user.
C18_Create ==
    [][\A c \in Browser, form \in TaskForms :
         (resp'.op = "add_task" /\ ~Blank(form.title)
            /\ AddTask(c, "POST", form)) =>
           LET B == session[c]["user_id"]
               added == todos' \ todos
           IN  /\ todos \subseteq todos'
               /\ Cardinality(added) = 1
               /\ \A t \in added :
                     /\ t.user_id = B
                     /\ t.done = 0
                     /\ t.title = Strip(form.title)
                     /\ \A u \in todos : u.id # t.id
                     /\ t \in Listed(todos', B)
                     /\ \A i \in 1..Len(users) :
                           users[i].id # B => t \notin Listed(todos', users[i].id)
               /\ session' = session
               /\ resp'.flash.message = "Task added."]_vars

\* The second user has just added a task beside a task of the first user.
C18_Witness ==
    \E c \in Browser :
        /\ resp.client = c /\ resp.op = "add_task"
        /\ resp.flash.message = "Task added."
        /\ session[c]["user_id"] = 2
        /\ \E t, u \in todos :
              /\ t.user_id = 1 /\ t.id = 1
              /\ u.user_id = 2 /\ u.id = 2 /\ u.done = 0

\* C19: the redirect that answers an anonymous request for a path carries
\* that path as next; an accepted login that carries a next redirects to it,
\* so a login that carries the next of the redirect just received goes to the
\* path that was asked for; an accepted login without next redirects to the
\* dashboard.
C19_Resume ==
    [][\A c \in Browser :
         /\ (resp'.client = c /\ resp'.op \in Guarded /\ ~LoggedIn(session[c])) =>
               /\ resp'.status = 302
               /\ resp'.location.endpoint = "login"
               /\ resp'.location.next = Path(resp'.op, resp'.task_id)
         /\ \A form \in LoginForms :
               (LoginAccepted(c) /\ Login(c, form)) =>
                 /\ resp'.status = 302
                 /\ resp'.location.next = NoPath
                 /\ form.next # NoPath =>
                       /\ resp'.location.endpoint = form.next.endpoint
                       /\ resp'.location.task_id = form.next.task_id
                 /\ (resp.client = c /\ resp.location.endpoint = "login"
                       /\ resp.location.next # NoPath
                       /\ form.next = resp.location.next) =>
                       /\ resp.op = resp'.location.endpoint
                       /\ resp.task_id = resp'.location.task_id
                 /\ form.next = NoPath =>
                       /\ resp'.location.endpoint = "dashboard"
                       /\ resp'.location.task_id = 0]_vars

\* The login just accepted has sent the browser to the edit page of task 1,
\* and the task is there.
C19_Witness ==
    \E c \in Browser :
        /\ resp.client = c /\ resp.op = "login" /\ resp.status = 302
        /\ resp.flash.category = "success"
        /\ resp.location.endpoint = "edit_task" /\ resp.location.task_id = 1
        /\ LoggedIn(session[c])
        /\ \E t \in todos : t.id = 1

\* C20: in every state a session holds neither user_id nor username, or it
\* holds both and they are the id and the username of one row of users; a
\* register request, accepted or not, leaves the session as it was.
C20_SessionIdentity ==
    /\ [](\A c \in Clients :
             \/ /\ "user_id" \notin DOMAIN session[c]
                /\ "username" \notin DOMAIN session[c]
             \/ /\ "user_id" \in DOMAIN session[c]
                /\ "username" \in DOMAIN session[c]
                /\ \E i \in 1..Len(users) :
                      /\ users[i].id = session[c]["user_id"]
                      /\ users[i].username = session[c]["username"])
    /\ [][resp'.op = "register" => session' = session]_vars

\* A second user has been registered from a browser that is logged in as
\* the first, and the browser is still logged in as the first.
C20_Witness ==
    \E c \in Browser :
        /\ resp.client = c /\ resp.op = "register"
        /\ resp.flash.category = "success"
        /\ Len(users) = 2
        /\ LoggedIn(session[c])
        /\ session[c]["user_id"] = users[1].id
        /\ session[c]["username"] = users[1].username

====
